---- MODULE Spec2Model ----
(***************************************************************************)
(* paper-prep: the best-model selection and ranking pipeline.              *)
(*                                                                         *)
(* The command-line entry point (src/paper-prep.py) reads config.yaml,     *)
(* parses its options, constructs PaperPrep (log discovery, metric         *)
(* extraction, sort, best-run selection, symlinking, metric plots) and     *)
(* then writes the paper artifacts and optionally removes checkpoints.     *)
(* The file system the program works on is part of the state.              *)
(***************************************************************************)
EXTENDS Integers, Sequences, FiniteSets, TLC

\* ------------------------------------------------------------------ bounds
\* Metric values are 0..MaxVal; a table of the ranking check has at most
\* MaxRows rows.
MaxVal == 1
MaxRows == 2
MaxPriorities == 2

\* A cell no event record set (pandas fills it with NaN).
NaN == -1

MetricValues == 0..MaxVal
CellValues == MetricValues \cup {NaN}

\* ------------------------------------------------------------ directories
LogDirNames == {"exp_a", "exp_b"}
VersionNames == {"version_0", "version_1"}
BestModel == "best_model"

\* ------------------------------------------------------------------ metrics
\* Scalar tags of the test split that an event file may hold.
ColumnNames ==
    {"test_loss", "test_mae", "test_mape", "test_accuracy", "test_recall",
     "test_runtime"}

\* Python's `metric in col` (substring test) on the names of the model.
Contains(metric, col) ==
    \/ metric = col
    \/ metric = "loss" /\ col = "test_loss"
    \/ metric = "mae" /\ col = "test_mae"
    \/ metric = "accuracy" /\ col = "test_accuracy"
    \/ metric = "runtime" /\ col = "test_runtime"
    \/ metric = "mape" /\ col = "test_mape"
    \/ metric = "ma" /\ col \in {"test_mae", "test_mape"}
    \/ metric = "recall" /\ col = "test_recall"
    \/ metric = "test" /\ col \in ColumnNames

\* any(metric in col for metric in metrics)
AnyIn(metrics, col) == \E i \in 1..Len(metrics) : Contains(metrics[i], col)

BaseMinMetrics == <<"loss", "mae", "mape", "mse", "rmse", "perplexity">>
BaseMaxMetrics == <<"accuracy", "precision", "recall", "f1_score", "topk", "top_k">>

\* ------------------------------------------------------------- sequences
Range(s) == {s[i] : i \in 1..Len(s)}

RECURSIVE SeqsUpTo(_, _)
SeqsUpTo(S, n) ==
    IF n = 0 THEN {<<>>}
    ELSE LET shorter == SeqsUpTo(S, n - 1)
         IN  shorter \cup {Append(s, x) : s \in {t \in shorter : Len(t) = n - 1}, x \in S}

\* The sequences that list every element of S exactly once.
RECURSIVE Perms(_)
Perms(S) ==
    IF S = {} THEN {<<>>}
    ELSE UNION {{<<x>> \o p : p \in Perms(S \ {x})} : x \in S}

\* list.remove(x): drops the first occurrence of x.
RECURSIVE RemoveFirst(_, _)
RemoveFirst(s, x) ==
    IF s = <<>> THEN <<>>
    ELSE IF Head(s) = x THEN Tail(s)
    ELSE <<Head(s)>> \o RemoveFirst(Tail(s), x)

\* How often x occurs in s.
RECURSIVE Count(_, _)
Count(s, x) ==
    IF s = <<>> THEN 0
    ELSE (IF Head(s) = x THEN 1 ELSE 0) + Count(Tail(s), x)

\* ------------------------------------------------------------ dataframes
\* A dataframe is [columns: the metric columns in order, rows: a sequence of
\* [version, cells]], cells a function from the columns to CellValues. The
\* "version" column contains no metric name and is never a sort column, so
\* it is kept beside the cells.
EmptyFrame == [columns |-> <<>>, rows |-> <<>>]

\* df.empty
IsEmpty(df) == df.rows = <<>>

\* pd.concat([df, new_df]): the union of the columns in order of first
\* appearance, rows of df then rows of new_df, missing cells NaN.
Concat(df, new_df) ==
    LET cols == df.columns \o SelectSeq(new_df.columns, LAMBDA c : c \notin Range(df.columns))
        Widen(r) == [version |-> r.version,
                     cells |-> [c \in Range(cols) |->
                                   IF c \in DOMAIN r.cells THEN r.cells[c] ELSE NaN]]
        both == df.rows \o new_df.rows
    IN  [columns |-> cols, rows |-> [i \in 1..Len(both) |-> Widen(both[i])]]

\* _extract_metrics_from_dataframe: an empty dataframe is returned as it is;
\* otherwise every column whose name contains no known metric is dropped.
extract_metrics_from_dataframe(df, mins, maxs, pmin, pmax) ==
    IF IsEmpty(df) THEN df
    ELSE LET all_metrics == mins \o maxs \o pmin \o pmax
             cols == SelectSeq(df.columns, LAMBDA c : AnyIn(all_metrics, c))
         IN  [columns |-> cols,
              rows |-> [i \in 1..Len(df.rows) |->
                          [version |-> df.rows[i].version,
                           cells |-> [c \in Range(cols) |-> df.rows[i].cells[c]]]]]

\* for prio in priority: if prio not in metrics: metrics.append(prio)
RECURSIVE AppendMissing(_, _)
AppendMissing(metrics, prios) ==
    IF prios = <<>> THEN metrics
    ELSE AppendMissing(IF Head(prios) \in Range(metrics) THEN metrics
                       ELSE Append(metrics, Head(prios)),
                       Tail(prios))

\* Variant of the loop below that leaves the list as it is.
KeepOrder(sort_cols, priority_metric, i) == sort_cols

\* for col in sort_cols: if priority_metric in col: remove it, insert it at 0.
\* The list is changed while it is iterated: i is the iterator's position.
RECURSIVE MoveToFront(_, _, _)
MoveToFront(sort_cols, priority_metric, i) ==
    IF i > Len(sort_cols) THEN sort_cols
    ELSE LET col == sort_cols[i]
         IN  IF Contains(priority_metric, col)
             THEN MoveToFront(<<col>> \o RemoveFirst(sort_cols, col), priority_metric, i + 1)
             ELSE MoveToFront(sort_cols, priority_metric, i + 1)

\* for priority_metric in priority: (the loop above)
RECURSIVE PrioritiseCols(_, _)
PrioritiseCols(sort_cols, priority) ==
    IF priority = <<>> THEN sort_cols
    ELSE PrioritiseCols(MoveToFront(sort_cols, Head(priority), 1), Tail(priority))

\* Whether cell a sorts strictly before cell b under one key: NaN sorts last
\* whatever the direction (na_position = "last").
CellBeforeAscendingOnly(a, b, asc) ==
    a # b /\ (b = NaN \/ (a # NaN /\ a < b))

CellBefore(a, b, asc) ==
    a # b /\ (b = NaN \/ (a # NaN /\ IF asc THEN a < b ELSE a > b))

\* Whether row r1 sorts strictly before row r2 under the keys by[k..].
RECURSIVE RowBefore(_, _, _, _, _)
RowBefore(r1, r2, by, ascending, k) ==
    IF k > Len(by) THEN FALSE
    ELSE LET a == r1.cells[by[k]]
             b == r2.cells[by[k]]
         IN  IF a = b THEN RowBefore(r1, r2, by, ascending, k + 1)
             ELSE CellBefore(a, b, ascending[k])

\* Insert r into the sorted rows: after the rows it does not sort before
\* (ties keep the order of the table) or, when the sort does not keep the
\* order of equal keys, before the rows that do not sort before it.
RECURSIVE InsertRow(_, _, _, _, _)
InsertRow(sorted, r, by, ascending, keepTies) ==
    IF sorted = <<>> THEN <<r>>
    ELSE IF \/ RowBefore(r, Head(sorted), by, ascending, 1)
            \/ ~keepTies /\ ~RowBefore(Head(sorted), r, by, ascending, 1)
         THEN <<r>> \o sorted
         ELSE <<Head(sorted)>> \o InsertRow(Tail(sorted), r, by, ascending, keepTies)

\* df.sort_values(by, ascending, ignore_index=True) on the rows. Several keys
\* are sorted by a stable lexsort; one key by the default quicksort, whose
\* order of equal keys depends on the build (keepTies).
RECURSIVE SortRows(_, _, _, _, _)
SortRows(done, rows, by, ascending, keepTies) ==
    IF rows = <<>> THEN done
    ELSE SortRows(InsertRow(done, Head(rows), by, ascending, keepTies),
                  Tail(rows), by, ascending, keepTies)

sort_values(df, by, ascending, stable) ==
    [columns |-> df.columns,
     rows |-> SortRows(<<>>, df.rows, by, ascending, Len(by) # 1 \/ stable)]

\* The sort columns of _sort_metrics_dataframe: each column is classified
\* as minimised (first) or else maximised, and the priority metrics are
\* moved to the front of their list.
sort_cols_min(df, mins, pmin) ==
    PrioritiseCols(SelectSeq(df.columns, LAMBDA c : AnyIn(mins, c)), pmin)

sort_cols_max(df, mins, maxs, pmax) ==
    PrioritiseCols(SelectSeq(df.columns, LAMBDA c : ~AnyIn(mins, c) /\ AnyIn(maxs, c)), pmax)

Repeat(x, n) == [i \in 1..n |-> x]

\* The keys handed to sort_values for the priority order.
SortKeysMaxFirstAlways(cmin, cmax, order) ==
    [by |-> cmax \o cmin,
     ascending |-> Repeat(FALSE, Len(cmax)) \o Repeat(TRUE, Len(cmin))]

SortKeys(cmin, cmax, order) ==
    IF order = "minimize"
    THEN [by |-> cmin \o cmax,
          ascending |-> Repeat(TRUE, Len(cmin)) \o Repeat(FALSE, Len(cmax))]
    ELSE [by |-> cmax \o cmin,
          ascending |-> Repeat(FALSE, Len(cmax)) \o Repeat(TRUE, Len(cmin))]

\* _sort_metrics_dataframe: the metric lists after the priority metrics were
\* appended, the keys, and the sorted dataframe.
sort_metrics_dataframe(df, mins, maxs, pmin, pmax, order, stable) ==
    LET edf == extract_metrics_from_dataframe(df, mins, maxs, pmin, pmax)
        mins2 == AppendMissing(mins, pmin)
        maxs2 == AppendMissing(maxs, pmax)
        keys == SortKeys(sort_cols_min(edf, mins2, pmin),
                         sort_cols_max(edf, mins2, maxs2, pmax), order)
    IN  [min_metrics |-> mins2,
         max_metrics |-> maxs2,
         keys |-> keys,
         sorted_metrics_df |-> sort_values(edf, keys.by, keys.ascending, stable)]

\* -------------------------------------------------------------- the state
VARIABLES
    \* the file system and the command line
    events,        \* per log directory and version: the test scalars of its event file
    listing,       \* per log directory: the order iterdir() yields the version directories in
    link,          \* per log directory: the target of the best_model symlink, or "none"
    ckpt,          \* per log directory: the versions that hold checkpoint directories
    files,         \* per log directory and version: the files the program wrote there
    metrics_yaml,  \* per log directory and version: the content of <split>_metrics.yaml
    paper,         \* start_path/paper: the copied images and chapter/ch_results.tex
    optuna_db,     \* whether a file optuna.db exists under start_path
    config_yaml,   \* config.yaml: its priority_min and priority_max lists
    argv,          \* the options passed on the command line
    stable_sort,   \* whether this build's single-key sort keeps the order of equal keys
    \* the program
    pc,            \* the stage the program is in
    idx,           \* the position of the stage's loop (1-based)
    run,           \* "first" or "second" invocation on the same logs
    log_dirs,      \* ModelSearchBase.log_dirs
    data,          \* ModelAnalysis.data, then ModelEvaluation.data
    new_data,      \* the list a loop is building (dataframes, new_data)
    sort_keys,     \* per sorted dataframe: the by/ascending lists given to sort_values
    priority_min, priority_max, priority_order,
    min_metrics, max_metrics,
    best_models,   \* ModelSelection.best_models
    study_names,   \* OptunaPlotter.study_names
    error,         \* the exception that ended the program, or "none"
    prompts,       \* the confirmation prompts issued, with their answers
    prior_link,    \* link as it was when this invocation started
    first_best     \* per log directory: the version the first invocation selected

env == <<events, listing, optuna_db, config_yaml, argv, stable_sort>>
fs == <<link, ckpt, files, metrics_yaml, paper>>
attrs == <<priority_min, priority_max, priority_order, min_metrics, max_metrics>>
vars == <<events, listing, link, ckpt, files, metrics_yaml, paper, optuna_db,
          config_yaml, argv, stable_sort, pc, idx, run, log_dirs, data, new_data,
          sort_keys, priority_min, priority_max, priority_order, min_metrics,
          max_metrics, best_models, study_names, error, prompts, prior_link,
          first_best>>

\* ------------------------------------------------------------ the inputs
\* The rows an event file can hold: every column set at least once.
RowsOver(cols) ==
    {c \in [Range(cols) -> CellValues] : \E k \in Range(cols) : c[k] # NaN}

\* The event files of the pipeline: no test scalar at all, or one record
\* of the test epoch.
PipelineColumns == <<"test_loss">>
PipelineFrames ==
    {EmptyFrame} \cup
    {[columns |-> PipelineColumns, rows |-> <<c>>] : c \in RowsOver(PipelineColumns)}

Options == {"--remove_unused_checkpoints", "--no_confirm"}
Configs ==
    {[priority_min |-> <<>>, priority_max |-> <<>>],
     [priority_min |-> <<"loss">>, priority_max |-> <<"accuracy">>]}
Answers == {"y", "n", "yes"}
LogDirOrder == <<"exp_a", "exp_b">>
StudiesInDb == <<"exp_a">>

NoFiles == [l \in LogDirNames |-> [v \in VersionNames |-> {}]]
NoYaml == [l \in LogDirNames |-> [v \in VersionNames |-> <<>>]]
NoPaper == [images |-> [l \in LogDirNames |-> {}], ch_results |-> <<>>, written |-> FALSE]

ProgramInit ==
    /\ pc = "start"
    /\ idx = 0
    /\ log_dirs = <<>>
    /\ data = <<>>
    /\ new_data = <<>>
    /\ sort_keys = <<>>
    /\ priority_min = <<>>
    /\ priority_max = <<>>
    /\ priority_order = "maximize"
    /\ min_metrics = <<>>
    /\ max_metrics = <<>>
    /\ best_models = <<>>
    /\ study_names = <<>>
    /\ error = "none"
    /\ prompts = <<>>

\* What holds of every start of the pipeline on fresh program state.
StartOfRun ==
    /\ ckpt = [l \in LogDirNames |-> VersionNames]
    /\ files = NoFiles
    /\ metrics_yaml = NoYaml
    /\ paper = NoPaper
    /\ run = "first"
    /\ prior_link = link
    /\ first_best = [l \in LogDirNames |-> "none"]
    /\ ProgramInit

\* Logs that were never processed: no log directory has a best_model link.
\* Every table of the pipeline has one sort key and at most one row per
\* version, so the two orders a sort may leave equal keys in are the two
\* orders of the directory listing.
Init ==
    /\ events \in [LogDirNames -> [VersionNames -> PipelineFrames]]
    /\ listing \in [LogDirNames -> Perms(VersionNames)]
    /\ link = [l \in LogDirNames |-> "none"]
    /\ optuna_db \in BOOLEAN
    /\ config_yaml \in Configs
    /\ argv \in SUBSET Options
    /\ stable_sort = TRUE
    /\ StartOfRun

\* Logs in which any best_model link may be left from earlier: no link, or a
\* link to any version. The database exists and no option is passed.
InitLinked ==
    /\ events \in [LogDirNames -> [VersionNames -> PipelineFrames]]
    /\ listing \in [LogDirNames -> Perms(VersionNames)]
    /\ link \in [LogDirNames -> {"none"} \cup VersionNames]
    /\ optuna_db = TRUE
    /\ config_yaml = [priority_min |-> <<>>, priority_max |-> <<>>]
    /\ argv = {}
    /\ stable_sort = TRUE
    /\ StartOfRun

\* ------------------------------------------------------- the entry point
\* argparse: --remove_unused_checkpoints is a store_false option (default
\* True, False when passed), --no_confirm a store_true option.
parse_args(options) ==
    [remove_unused_checkpoints |-> "--remove_unused_checkpoints" \notin options,
     no_confirm |-> "--no_confirm" \in options]

args == parse_args(argv)

\* The keyword arguments PaperPrep receives from the call of the entry
\* point: start_path, split, custom_metrics, language and
\* significant_digits are passed, the priority arguments keep the defaults
\* of PaperPrep.__init__.
paper_prep_call(config) ==
    [priority_min |-> <<>>, priority_max |-> <<>>, priority_order |-> "maximize"]

\* config.yaml is read and the options are parsed; PaperPrep(...) is called.
Start ==
    /\ pc = "start"
    /\ pc' = "get_log_dirs"
    /\ UNCHANGED <<env, fs, idx, run, log_dirs, data, new_data, sort_keys, attrs,
                   best_models, study_names, error, prompts, prior_link, first_best>>

\* ------------------------------------------------------------ discovery
\* _get_log_dirs: the parent's parent of every tfevents file, sorted. Every
\* version directory of the model holds an event file.
get_log_dirs == SelectSeq(LogDirOrder, LAMBDA l : l \in LogDirNames)

GetLogDirs ==
    /\ pc = "get_log_dirs"
    /\ log_dirs' = get_log_dirs
    /\ pc' = "create_dataframe"
    /\ idx' = 1
    /\ new_data' = <<>>
    /\ UNCHANGED <<env, fs, run, data, sort_keys, attrs, best_models, study_names,
                   error, prompts, prior_link, first_best>>

\* What a path log_dir/name leads to: a version directory, through the
\* best_model link when name is "best_model"; "none" when it leads nowhere.
Resolve(l, name) ==
    IF name \in VersionNames THEN name
    ELSE IF name = BestModel /\ link[l] \in VersionNames THEN link[l]
    ELSE "none"

\* log_dir.iterdir(): the version directories in the directory's order, and
\* the best_model link when there is one.
iterdir(l) ==
    (IF link[l] = "none" THEN <<>> ELSE <<BestModel>>) \o listing[l]

\* _get_version_dirs: the entries that are directories, "best_model" excluded.
get_version_dirs_keeping_best_model(l) ==
    SelectSeq(iterdir(l), LAMBDA d : Resolve(l, d) # "none")

get_version_dirs(l) ==
    SelectSeq(SelectSeq(iterdir(l), LAMBDA d : Resolve(l, d) # "none"),
              LAMBDA d : d # BestModel)

\* extract_data_from_event_file, then new_df["version"] = version_dir.name.
event_frame(l, d) ==
    LET f == events[l][Resolve(l, d)]
    IN  [columns |-> f.columns,
         rows |-> [i \in 1..Len(f.rows) |-> [version |-> d, cells |-> f.rows[i]]]]

\* The loop of create_dataframe over the version directories of one log
\* directory.
RECURSIVE concat_versions(_, _, _)
concat_versions(df, l, version_dirs) ==
    IF version_dirs = <<>> THEN df
    ELSE concat_versions(Concat(df, event_frame(l, Head(version_dirs))), l,
                         Tail(version_dirs))

CreateDataframeStep ==
    /\ pc = "create_dataframe"
    /\ idx <= Len(log_dirs)
    /\ LET log_dir == log_dirs[idx]
           df == concat_versions(EmptyFrame, log_dir, get_version_dirs(log_dir))
       IN  new_data' = Append(new_data, [log_dir |-> log_dir, dataframe |-> df])
    /\ idx' = idx + 1
    /\ UNCHANGED <<env, fs, pc, run, log_dirs, data, sort_keys, attrs, best_models,
                   study_names, error, prompts, prior_link, first_best>>

\* create_dataframe returns; ModelEvaluation.__init__ stores its arguments
\* and the base metric lists.
CreateDataframeReturn ==
    /\ pc = "create_dataframe"
    /\ idx > Len(log_dirs)
    /\ data' = new_data
    /\ new_data' = <<>>
    /\ priority_min' = paper_prep_call(config_yaml).priority_min
    /\ priority_max' = paper_prep_call(config_yaml).priority_max
    /\ priority_order' = paper_prep_call(config_yaml).priority_order
    /\ min_metrics' = BaseMinMetrics
    /\ max_metrics' = BaseMaxMetrics
    /\ pc' = "sort"
    /\ idx' = 1
    /\ UNCHANGED <<env, fs, run, log_dirs, sort_keys, best_models, study_names,
                   error, prompts, prior_link, first_best>>

\* ------------------------------------------------------------------ sort
\* One iteration of _create_sorted_metrics_dataframe.
SortStep ==
    /\ pc = "sort"
    /\ idx <= Len(data)
    /\ LET r == sort_metrics_dataframe(data[idx].dataframe, min_metrics, max_metrics,
                                       priority_min, priority_max, priority_order,
                                       stable_sort)
       IN  /\ min_metrics' = r.min_metrics
           /\ max_metrics' = r.max_metrics
           /\ sort_keys' = Append(sort_keys, r.keys)
           /\ new_data' = Append(new_data,
                                 [log_dir |-> data[idx].log_dir,
                                  dataframe |-> data[idx].dataframe,
                                  sorted_metrics_df |-> r.sorted_metrics_df])
    /\ idx' = idx + 1
    /\ UNCHANGED <<env, fs, pc, run, log_dirs, data, priority_min, priority_max,
                   priority_order, best_models, study_names, error, prompts,
                   prior_link, first_best>>

SortReturn ==
    /\ pc = "sort"
    /\ idx > Len(data)
    /\ data' = new_data
    /\ new_data' = <<>>
    /\ pc' = "select"
    /\ idx' = 1
    /\ UNCHANGED <<env, fs, run, log_dirs, sort_keys, attrs, best_models, study_names,
                   error, prompts, prior_link, first_best>>

\* ------------------------------------------------------------- selection
\* sorted_metrics_df.iloc[0]
best_row_last(sorted_metrics_df) == sorted_metrics_df.rows[Len(sorted_metrics_df.rows)]

best_row(sorted_metrics_df) == sorted_metrics_df.rows[1]

\* One iteration of _select_best_models: an empty table is skipped.
SelectStep ==
    /\ pc = "select"
    /\ idx <= Len(data)
    /\ best_models' =
          IF IsEmpty(data[idx].sorted_metrics_df) THEN best_models
          ELSE Append(best_models,
                      [log_dir |-> data[idx].log_dir,
                       metrics |-> best_row(data[idx].sorted_metrics_df)])
    /\ idx' = idx + 1
    /\ UNCHANGED <<env, fs, pc, run, log_dirs, data, new_data, sort_keys, attrs,
                   study_names, error, prompts, prior_link, first_best>>

\* Variant of the return below in which ModelPlotter.__init__ skips
\* link_best_models.
SelectReturnWithoutLinking ==
    /\ pc = "select"
    /\ idx > Len(data)
    /\ pc' = "optuna_init"
    /\ idx' = 1
    /\ UNCHANGED <<env, fs, run, log_dirs, data, new_data, sort_keys, attrs,
                   best_models, study_names, error, prompts, prior_link, first_best>>

\* _select_best_models returns; ModelPlotter.__init__ calls link_best_models.
SelectReturn ==
    /\ pc = "select"
    /\ idx > Len(data)
    /\ pc' = "link"
    /\ idx' = 1
    /\ UNCHANGED <<env, fs, run, log_dirs, data, new_data, sort_keys, attrs,
                   best_models, study_names, error, prompts, prior_link, first_best>>

\* --------------------------------------------------------------- linking
MetricsYaml == "test_metrics.yaml"

\* if symlink_path.is_symlink(): symlink_path.unlink()
\* symlink_path.symlink_to(source_dir): fails when the path still exists.
symlink_without_unlink(current, source) ==
    IF current = "none" THEN [link |-> source, raised |-> "none"]
    ELSE [link |-> current, raised |-> "FileExistsError"]

symlink_best_model(current, source) ==
    LET unlinked == IF current # "none" THEN "none" ELSE current
    IN  IF unlinked = "none" THEN [link |-> source, raised |-> "none"]
        ELSE [link |-> unlinked, raised |-> "FileExistsError"]

\* One iteration of link_best_models: the link is replaced and the metrics
\* of the best row are written through it.
LinkStep ==
    /\ pc = "link"
    /\ idx <= Len(best_models)
    /\ LET path == best_models[idx].log_dir
           metrics == best_models[idx].metrics
           r == symlink_best_model(link[path], metrics.version)
           target == IF r.link \in VersionNames THEN r.link ELSE "none"
       IN  /\ link' = [link EXCEPT ![path] = r.link]
           /\ IF r.raised = "none" /\ target # "none"
              THEN /\ metrics_yaml' = [metrics_yaml EXCEPT ![path][target] = <<metrics>>]
                   /\ files' = [files EXCEPT ![path][target] = @ \cup {MetricsYaml}]
                   /\ idx' = idx + 1
                   /\ UNCHANGED <<pc, error>>
              ELSE /\ pc' = "crashed"
                   /\ error' = IF r.raised # "none" THEN r.raised ELSE "OSError"
                   /\ UNCHANGED <<metrics_yaml, files, idx>>
    /\ UNCHANGED <<env, ckpt, paper, run, log_dirs, data, new_data, sort_keys, attrs,
                   best_models, study_names, prompts, prior_link, first_best>>

\* ModelPlotter.__init__ returns; LatexTemplate.__init__ stores the language.
LinkReturn ==
    /\ pc = "link"
    /\ idx > Len(best_models)
    /\ pc' = "optuna_init"
    /\ UNCHANGED <<env, fs, idx, run, log_dirs, data, new_data, sort_keys, attrs,
                   best_models, study_names, error, prompts, prior_link, first_best>>

\* ---------------------------------------------------------------- optuna
\* OptunaPlotter._search_database: the first optuna.db found is returned;
\* when there is none, the attribute db_path, which is never set, is read.
search_database(found) ==
    IF found THEN [raised |-> "none"] ELSE [raised |-> "AttributeError"]

\* try: OptunaPlotter.__init__(self, start_path)
\* except FileNotFoundError: self.study_names = []
OptunaInit ==
    /\ pc = "optuna_init"
    /\ LET r == search_database(optuna_db)
       IN  IF r.raised = "none"
           THEN /\ study_names' = StudiesInDb
                /\ pc' = "plots"
                /\ idx' = 1
                /\ error' = error
           ELSE IF r.raised = "FileNotFoundError"
           THEN /\ study_names' = <<>>
                /\ pc' = "plots"
                /\ idx' = 1
                /\ error' = error
           ELSE /\ pc' = "crashed"
                /\ error' = r.raised
                /\ UNCHANGED <<study_names, idx>>
    /\ UNCHANGED <<env, fs, run, log_dirs, data, new_data, sort_keys, attrs,
                   best_models, prompts, prior_link, first_best>>

\* ----------------------------------------------------------------- plots
\* One iteration of create_metric_plots: the event files are found through
\* log_dir/best_model and the curves are saved there.
PlotStep ==
    /\ pc = "plots"
    /\ idx <= Len(best_models)
    /\ LET path == best_models[idx].log_dir
           target == Resolve(path, BestModel)
       IN  files' = IF target = "none" THEN files
                    ELSE [files EXCEPT ![path][target] = @ \cup {"loss.pdf"}]
    /\ idx' = idx + 1
    /\ UNCHANGED <<env, link, ckpt, metrics_yaml, paper, pc, run, log_dirs, data,
                   new_data, sort_keys, attrs, best_models, study_names, error,
                   prompts, prior_link, first_best>>

\* create_metric_plots and with it PaperPrep.__init__ return.
PlotReturn ==
    /\ pc = "plots"
    /\ idx > Len(best_models)
    /\ pc' = "generate_optuna_plots"
    /\ UNCHANGED <<env, fs, idx, run, log_dirs, data, new_data, sort_keys, attrs,
                   best_models, study_names, error, prompts, prior_link, first_best>>

\* The best models whose relative log directory contains the study name.
models_of_study(study_name) ==
    SelectSeq(best_models, LAMBDA m : m.log_dir = study_name)

\* generate_optuna_plots: two plots per study that has a best model.
RECURSIVE optuna_plots(_, _)
optuna_plots(fl, studies) ==
    IF studies = <<>> THEN fl
    ELSE LET found == models_of_study(Head(studies))
             path == found[1].log_dir
             target == Resolve(path, BestModel)
         IN  IF found = <<>> \/ target = "none" THEN optuna_plots(fl, Tail(studies))
             ELSE optuna_plots(
                    [fl EXCEPT ![path][target] =
                        @ \cup {"param_importance.pdf", "optimization_history.pdf"}],
                    Tail(studies))

GenerateOptunaPlots ==
    /\ pc = "generate_optuna_plots"
    /\ files' = optuna_plots(files, study_names)
    /\ pc' = "generate_dir"
    /\ UNCHANGED <<env, link, ckpt, metrics_yaml, paper, idx, run, log_dirs, data,
                   new_data, sort_keys, attrs, best_models, study_names, error,
                   prompts, prior_link, first_best>>

\* ------------------------------------------------------- paper directory
\* The files of log_dir/best_model that are no directory and no event file.
best_model_files(l) ==
    IF Resolve(l, BestModel) = "none" THEN {} ELSE files[l][Resolve(l, BestModel)]

\* generate_dir: the files of every best model are copied to paper/images.
GenerateDir ==
    /\ pc = "generate_dir"
    /\ paper' = [paper EXCEPT !.images =
                    [l \in LogDirNames |->
                        IF \E i \in 1..Len(best_models) : best_models[i].log_dir = l
                        THEN @[l] \cup best_model_files(l) ELSE @[l]]]
    /\ pc' = "generate_latex"
    /\ UNCHANGED <<env, link, ckpt, files, metrics_yaml, idx, run, log_dirs, data,
                   new_data, sort_keys, attrs, best_models, study_names, error,
                   prompts, prior_link, first_best>>

Pdfs == {"loss.pdf", "param_importance.pdf", "optimization_history.pdf"}

\* fill_latex_template for one best model: its section, metrics and images.
latex_output(model_data) ==
    [section |-> model_data.log_dir,
     metrics |-> model_data.metrics,
     images |-> best_model_files(model_data.log_dir) \cap Pdfs]

\* Variant of generate_latex below that assigns each output to
\* all_best_models_latex instead of adding it.
GenerateLatexLastOnly ==
    /\ pc = "generate_latex"
    /\ files' = [l \in LogDirNames |-> [v \in VersionNames |->
                    IF /\ \E i \in 1..Len(best_models) : best_models[i].log_dir = l
                       /\ Resolve(l, BestModel) = v
                    THEN files[l][v] \cup {"latex.tex"} ELSE files[l][v]]]
    /\ paper' = [paper EXCEPT
                    !.ch_results = IF best_models = <<>> THEN <<>>
                                  ELSE <<latex_output(best_models[Len(best_models)])>>,
                    !.written = TRUE]
    /\ pc' = "check_remove"
    /\ UNCHANGED <<env, link, ckpt, metrics_yaml, idx, run, log_dirs, data, new_data,
                   sort_keys, attrs, best_models, study_names, error, prompts,
                   prior_link, first_best>>

\* generate_latex: latex.tex in every best_model directory, and the
\* outputs of all best models, in order, in paper/chapter/ch_results.tex.
GenerateLatex ==
    /\ pc = "generate_latex"
    /\ files' = [l \in LogDirNames |-> [v \in VersionNames |->
                    IF /\ \E i \in 1..Len(best_models) : best_models[i].log_dir = l
                       /\ Resolve(l, BestModel) = v
                    THEN files[l][v] \cup {"latex.tex"} ELSE files[l][v]]]
    /\ paper' = [paper EXCEPT
                    !.ch_results = [i \in 1..Len(best_models) |-> latex_output(best_models[i])],
                    !.written = TRUE]
    /\ pc' = "check_remove"
    /\ UNCHANGED <<env, link, ckpt, metrics_yaml, idx, run, log_dirs, data, new_data,
                   sort_keys, attrs, best_models, study_names, error, prompts,
                   prior_link, first_best>>

\* ----------------------------------------------------------- checkpoints
\* if args.remove_unused_checkpoints: pp.remove_unused_checkpoints(...)
CheckRemove ==
    /\ pc = "check_remove"
    /\ pc' = IF args.remove_unused_checkpoints THEN "remove" ELSE "done"
    /\ idx' = 1
    /\ UNCHANGED <<env, fs, run, log_dirs, data, new_data, sort_keys, attrs,
                   best_models, study_names, error, prompts, prior_link, first_best>>

\* Variant without version_dirs.remove(best): every version directory.
all_version_dirs(l, version) == get_version_dirs(l)

\* The version directories whose checkpoints are removed: all but the best.
unused_version_dirs(l, version) == RemoveFirst(get_version_dirs(l), version)

\* if not no_confirm: confirm = input(...); if confirm != "y": continue
confirmed_unless_n(no_confirm, answer) == no_confirm \/ answer # "n"

is_confirmed(no_confirm, answer) == no_confirm \/ answer = "y"

\* One iteration of remove_unused_checkpoints: unless no_confirm is set the
\* user is asked, and any answer but "y" skips the log directory.
RemoveStep ==
    /\ pc = "remove"
    /\ idx <= Len(best_models)
    /\ \E answer \in Answers :
          LET log_dir == best_models[idx].log_dir
              version == best_models[idx].metrics.version
              asked == ~args.no_confirm
              confirmed == is_confirmed(args.no_confirm, answer)
              version_dirs == unused_version_dirs(log_dir, version)
          IN  /\ prompts' = IF asked
                            THEN Append(prompts, [log_dir |-> log_dir, answer |-> answer])
                            ELSE prompts
              /\ IF confirmed /\ version \notin Range(get_version_dirs(log_dir))
                 THEN /\ pc' = "crashed"
                      /\ error' = "ValueError"
                      /\ UNCHANGED <<ckpt, idx>>
                 ELSE /\ ckpt' = IF confirmed
                                 THEN [ckpt EXCEPT ![log_dir] =
                                         @ \ {Resolve(log_dir, d) : d \in Range(version_dirs)}]
                                 ELSE ckpt
                      /\ idx' = idx + 1
                      /\ UNCHANGED <<pc, error>>
    /\ UNCHANGED <<env, link, files, metrics_yaml, paper, run, log_dirs, data,
                   new_data, sort_keys, attrs, best_models, study_names, prior_link,
                   first_best>>

RemoveReturn ==
    /\ pc = "remove"
    /\ idx > Len(best_models)
    /\ pc' = "done"
    /\ UNCHANGED <<env, fs, idx, run, log_dirs, data, new_data, sort_keys, attrs,
                   best_models, study_names, error, prompts, prior_link, first_best>>

\* --------------------------------------------------------- a second run
\* The version selected for log directory l, "none" when there is none.
selected(l) ==
    LET found == SelectSeq(best_models, LAMBDA m : m.log_dir = l)
    IN  IF found = <<>> THEN "none" ELSE found[1].metrics.version

\* The program is started again with the same options on the same logs.
Rerun ==
    /\ pc = "done"
    /\ run = "first"
    /\ run' = "second"
    /\ first_best' = [l \in LogDirNames |-> selected(l)]
    /\ prior_link' = link
    /\ pc' = "start"
    /\ idx' = 0
    /\ log_dirs' = <<>>
    /\ data' = <<>>
    /\ new_data' = <<>>
    /\ sort_keys' = <<>>
    /\ priority_min' = <<>>
    /\ priority_max' = <<>>
    /\ priority_order' = "maximize"
    /\ min_metrics' = <<>>
    /\ max_metrics' = <<>>
    /\ best_models' = <<>>
    /\ study_names' = <<>>
    /\ error' = "none"
    /\ prompts' = <<>>
    /\ UNCHANGED <<env, fs>>

Next ==
    \/ Start
    \/ GetLogDirs
    \/ CreateDataframeStep
    \/ CreateDataframeReturn
    \/ SortStep
    \/ SortReturn
    \/ SelectStep
    \/ SelectReturn
    \/ LinkStep
    \/ LinkReturn
    \/ OptunaInit
    \/ PlotStep
    \/ PlotReturn
    \/ GenerateOptunaPlots
    \/ GenerateDir
    \/ GenerateLatex
    \/ CheckRemove
    \/ RemoveStep
    \/ RemoveReturn
    \/ Rerun

Spec == Init /\ [][Next]_vars

LinkSpec == InitLinked /\ [][Next]_vars

\* ------------------------------------------------- the ranking on its own
\* The tables _sort_metrics_dataframe is checked on: two metric columns, up
\* to MaxRows rows, any cell missing.
SortLayouts ==
    {<<"test_loss", "test_accuracy">>, <<"test_accuracy", "test_loss">>,
     <<"test_loss", "test_mae">>, <<"test_runtime", "test_loss">>}

SortPriorities ==
    {[min |-> <<>>, max |-> <<>>],
     [min |-> <<"mae">>, max |-> <<>>],
     [min |-> <<"loss", "mae">>, max |-> <<>>],
     [min |-> <<"runtime">>, max |-> <<"accuracy">>]}

VersionOfRow(i) == IF i % 2 = 1 THEN "version_0" ELSE "version_1"

SortFrames ==
    UNION {{[columns |-> cols,
             rows |-> [i \in 1..Len(rs) |-> [version |-> VersionOfRow(i), cells |-> rs[i]]]]
            : rs \in SeqsUpTo(RowsOver(cols), MaxRows)}
           : cols \in SortLayouts}

\* ModelEvaluation about to sort the table of one log directory.
InitSort ==
    /\ events = [l \in LogDirNames |-> [v \in VersionNames |-> EmptyFrame]]
    /\ listing = [l \in LogDirNames |-> <<"version_0", "version_1">>]
    /\ link = [l \in LogDirNames |-> "none"]
    /\ optuna_db = TRUE
    /\ config_yaml = [priority_min |-> <<>>, priority_max |-> <<>>]
    /\ argv = {}
    /\ stable_sort \in BOOLEAN
    /\ ckpt = [l \in LogDirNames |-> VersionNames]
    /\ files = NoFiles
    /\ metrics_yaml = NoYaml
    /\ paper = NoPaper
    /\ run = "first"
    /\ prior_link = link
    /\ first_best = [l \in LogDirNames |-> "none"]
    /\ pc = "sort"
    /\ idx = 1
    /\ log_dirs = <<"exp_a">>
    /\ \E df \in SortFrames : data = <<[log_dir |-> "exp_a", dataframe |-> df]>>
    /\ new_data = <<>>
    /\ sort_keys = <<>>
    /\ \E p \in SortPriorities : priority_min = p.min /\ priority_max = p.max
    /\ priority_order \in {"minimize", "maximize"}
    /\ min_metrics = BaseMinMetrics
    /\ max_metrics = BaseMaxMetrics
    /\ best_models = <<>>
    /\ study_names = <<>>
    /\ error = "none"
    /\ prompts = <<>>

NextSort ==
    \/ SortStep
    \/ SortReturn

SortSpec == InitSort /\ [][NextSort]_vars

\* ------------------------------------------- the priority step on its own
\* The tables the priority step is checked on: five metric columns in any
\* order, three of them minimised and two maximised by the built-in lists.
PriorityColumns ==
    {"test_loss", "test_mae", "test_mape", "test_accuracy", "test_recall"}

\* The priority lists: up to MaxPriorities metrics, some matching one
\* column, some several ("ma"), one every column ("test").
PriorityMinMetrics == {"loss", "ma", "test"}
PriorityMaxMetrics == {"recall", "test"}

PriorityFrames ==
    {[columns |-> cols,
      rows |-> <<[version |-> "version_0", cells |-> [c \in PriorityColumns |-> 0]]>>]
     : cols \in Perms(PriorityColumns)}

\* ModelEvaluation about to sort one such table.
InitPriority ==
    /\ events = [l \in LogDirNames |-> [v \in VersionNames |-> EmptyFrame]]
    /\ listing = [l \in LogDirNames |-> <<"version_0", "version_1">>]
    /\ link = [l \in LogDirNames |-> "none"]
    /\ optuna_db = TRUE
    /\ config_yaml = [priority_min |-> <<>>, priority_max |-> <<>>]
    /\ argv = {}
    /\ stable_sort = TRUE
    /\ ckpt = [l \in LogDirNames |-> VersionNames]
    /\ files = NoFiles
    /\ metrics_yaml = NoYaml
    /\ paper = NoPaper
    /\ run = "first"
    /\ prior_link = link
    /\ first_best = [l \in LogDirNames |-> "none"]
    /\ pc = "sort"
    /\ idx = 1
    /\ log_dirs = <<"exp_a">>
    /\ \E df \in PriorityFrames : data = <<[log_dir |-> "exp_a", dataframe |-> df]>>
    /\ new_data = <<>>
    /\ sort_keys = <<>>
    /\ priority_min \in SeqsUpTo(PriorityMinMetrics, MaxPriorities)
    /\ priority_max \in SeqsUpTo(PriorityMaxMetrics, MaxPriorities)
    /\ priority_order \in {"minimize", "maximize"}
    /\ min_metrics = BaseMinMetrics
    /\ max_metrics = BaseMaxMetrics
    /\ best_models = <<>>
    /\ study_names = <<>>
    /\ error = "none"
    /\ prompts = <<>>

PrioritySpec == InitPriority /\ [][NextSort]_vars

\* ------------------------------------------------------------ properties
\* The entries that hold a sorted table; sort_keys[i] are the keys of entry i.
SortedEntries ==
    IF pc = "sort" THEN new_data
    ELSE IF pc \in {"start", "get_log_dirs", "create_dataframe"} THEN <<>>
    ELSE data

\* The classification of a column by the metric lists.
IsMinCol(c) == AnyIn(min_metrics, c)
IsMaxCol(c) == ~IsMinCol(c) /\ AnyIn(max_metrics, c)

\* Under the key column c, value x ranks strictly ahead of value y: smaller in
\* a minimised column, larger in a maximised one, present ahead of missing.
Better(x, y, c) ==
    x # NaN /\ (y = NaN \/ IF IsMinCol(c) THEN x < y ELSE x > y)

\* Row r ranks strictly ahead of row q under the key list by: they agree on
\* the keys before some key, and r is better on that key.
StrictlyAhead(r, q, by) ==
    \E k \in 1..Len(by) :
        /\ \A j \in 1..(k - 1) : r.cells[by[j]] = q.cells[by[j]]
        /\ Better(r.cells[by[k]], q.cells[by[k]], by[k])

\* The row with its cells restricted to the columns cols.
Restrict(r, cols) ==
    [version |-> r.version, cells |-> [c \in Range(cols) |-> r.cells[c]]]

IsPermutationOfInput(out, in) ==
    /\ Len(out.rows) = Len(in.rows)
    /\ \A i \in 1..Len(in.rows) :
          LET r == Restrict(in.rows[i], out.columns)
          IN  Count(out.rows, r) =
              Count([j \in 1..Len(in.rows) |-> Restrict(in.rows[j], out.columns)], r)

\* C1: the table _sort_metrics_dataframe returns is a permutation of the
\* input rows, ordered lexicographically by the sort keys (no later row ranks
\* strictly ahead of an earlier one; a missing value ranks last); the keys
\* are the classified columns, each once, minimised columns ascending and
\* maximised ones descending; under "maximize" every maximised key precedes
\* every minimised key, under "minimize" the other way round.
C1_SortedLexicographically ==
    \A i \in 1..Len(SortedEntries) :
        LET out == SortedEntries[i].sorted_metrics_df
            by == sort_keys[i].by
            ascending == sort_keys[i].ascending
        IN  /\ IsPermutationOfInput(out, SortedEntries[i].dataframe)
            /\ Len(ascending) = Len(by)
            /\ \A k1, k2 \in 1..Len(by) : by[k1] = by[k2] => k1 = k2
            /\ Range(by) = {c \in Range(out.columns) : IsMinCol(c) \/ IsMaxCol(c)}
            /\ \A k \in 1..Len(by) : ascending[k] = IsMinCol(by[k])
            /\ \A k1, k2 \in 1..Len(by) :
                  k1 < k2 =>
                     IF priority_order = "maximize"
                     THEN ~(IsMinCol(by[k1]) /\ IsMaxCol(by[k2]))
                     ELSE ~(IsMaxCol(by[k1]) /\ IsMinCol(by[k2]))
            /\ \A a, b \in 1..Len(out.rows) :
                  a < b => ~StrictlyAhead(out.rows[b], out.rows[a], by)

\* C1 witness: a table was sorted on a maximised and a minimised key, its
\* two rows tie on the first key, and the second key reversed their order.
C1_Witness ==
    /\ pc = "select"
    /\ Len(data) = 1
    /\ LET out == data[1].sorted_metrics_df
           in == data[1].dataframe
           by == sort_keys[1].by
       IN  /\ Len(by) = 2
           /\ IsMaxCol(by[1]) /\ IsMinCol(by[2])
           /\ Len(out.rows) = 2
           /\ out.rows[1].cells[by[1]] = out.rows[2].cells[by[1]]
           /\ out.rows[1].cells[by[1]] # NaN
           /\ out.rows[1].cells[by[2]] # NaN
           /\ out.rows[1].cells[by[2]] < out.rows[2].cells[by[2]]
           /\ out.rows[1].version = in.rows[2].version

\* The stages after _select_best_models has returned.
AfterSelect ==
    {"link", "optuna_init", "plots", "generate_optuna_plots", "generate_dir",
     "generate_latex", "check_remove", "remove", "done", "crashed"}

\* The stages after link_best_models has returned or failed.
AfterLink == AfterSelect \ {"link"}

\* The entries of best_models for log directory l.
BestOf(l) == SelectSeq(best_models, LAMBDA m : m.log_dir = l)

\* The cells come from a record of version v's event file in l.
RowCameFrom(cells, l, v) ==
    /\ v \in VersionNames
    /\ \E k \in 1..Len(events[l][v].rows) :
          \A c \in DOMAIN cells :
             IF c \in DOMAIN events[l][v].rows[k]
             THEN cells[c] = events[l][v].rows[k][c]
             ELSE cells[c] = NaN

\* C2: once _select_best_models has returned, every log directory has a
\* table; a log directory with an empty sorted table has no best model, and
\* one with a non-empty table has exactly one: the first row of its sorted
\* table, which no row of the table ranks strictly ahead of under the sort
\* keys, and whose version is the version directory the row was read from.
C2_OneBestPerTable ==
    pc \in AfterSelect =>
        /\ \A l \in LogDirNames : \E i \in 1..Len(data) : data[i].log_dir = l
        /\ \A i \in 1..Len(data) :
              LET sorted == data[i].sorted_metrics_df
                  found == BestOf(data[i].log_dir)
              IN  IF IsEmpty(sorted) THEN found = <<>>
                  ELSE /\ Len(found) = 1
                       /\ found[1].metrics = sorted.rows[1]
                       /\ \A j \in 1..Len(sorted.rows) :
                             ~StrictlyAhead(sorted.rows[j], found[1].metrics, sort_keys[i].by)
                       /\ RowCameFrom(found[1].metrics.cells, data[i].log_dir,
                                      found[1].metrics.version)

\* C2 witness: selection is over; exp_a has an empty table and no best
\* model, exp_b has two runs and its best model is the run with the smaller
\* loss, which the directory lists second.
C2_Witness ==
    /\ pc = "link"
    /\ IsEmpty(data[1].sorted_metrics_df)
    /\ Len(data[2].dataframe.rows) = 2
    /\ Len(best_models) = 1
    /\ best_models[1].log_dir = "exp_b"
    /\ best_models[1].metrics.version = listing["exp_b"][2]
    /\ best_models[1].metrics.cells["test_loss"] = 0
    /\ data[2].dataframe.rows[1].cells["test_loss"] = 1

\* C3 (as claimed): once ModelEvaluation holds its arguments, the priority
\* lists of the ranking are the priority_min and priority_max of config.yaml.
C3_RanksWithConfiguredPriorities ==
    pc \notin {"start", "get_log_dirs", "create_dataframe"} =>
        /\ priority_min = config_yaml.priority_min
        /\ priority_max = config_yaml.priority_max

\* C4 (as claimed): without an optuna.db the construction does not fail; past
\* OptunaPlotter.__init__ no exception has ended the program and study_names
\* is the empty list.
C4_MissingDatabaseIsCaught ==
    (~optuna_db /\ pc \in AfterLink \ {"optuna_init"}) =>
        /\ pc # "crashed"
        /\ error = "none"
        /\ study_names = <<>>

\* A step of remove_unused_checkpoints that went through one best model.
IsRemoveStep == pc = "remove" /\ pc' = "remove" /\ idx' = idx + 1

\* Whether that step processed the log directory: no_confirm, or the answer
\* just given is "y".
StepConfirmed ==
    \/ args.no_confirm
    \/ Len(prompts') = Len(prompts) + 1 /\ prompts'[Len(prompts')].answer = "y"

\* C5: while remove_unused_checkpoints runs, the checkpoints, files and
\* metrics of every best model's version directory and the best_model links
\* stay as they are; a step that processes a log directory leaves
\* checkpoints in no version directory but the best one.
C5_BestCheckpointsKept ==
    [][pc = "remove" =>
          /\ \A i \in 1..Len(best_models) :
                LET l == best_models[i].log_dir
                    v == best_models[i].metrics.version
                IN  (v \in ckpt[l]) = (v \in ckpt'[l])
          /\ UNCHANGED <<link, files, metrics_yaml>>
          /\ (IsRemoveStep /\ StepConfirmed) =>
                LET l == best_models[idx].log_dir
                    v == best_models[idx].metrics.version
                IN  ckpt'[l] = ckpt[l] \cap {v}]_vars

\* C5 witness: a log directory was processed: the other version lost its
\* checkpoints, the best version has them.
C5_Witness ==
    /\ pc = "remove"
    /\ idx = 2
    /\ ckpt[best_models[1].log_dir] = {best_models[1].metrics.version}

\* C6: without no_confirm every step of remove_unused_checkpoints prompts
\* for its log directory, and unless the answer is exactly "y" no checkpoint
\* changes; the step moves on to the next best model either way, so when the
\* loop ends every best model was prompted for, in order. With no_confirm no
\* prompt is issued and every step processes its log directory.
C6_ConfirmationGuardsRemoval ==
    /\ [][IsRemoveStep =>
            LET l == best_models[idx].log_dir
                v == best_models[idx].metrics.version
            IN  IF args.no_confirm
                THEN /\ prompts' = prompts
                     /\ ckpt'[l] = ckpt[l] \cap {v}
                ELSE /\ Len(prompts') = Len(prompts) + 1
                     /\ prompts'[Len(prompts')].log_dir = l
                     /\ SubSeq(prompts', 1, Len(prompts)) = prompts
                     /\ prompts'[Len(prompts')].answer # "y" => ckpt' = ckpt
                     /\ \A o \in LogDirNames \ {l} : ckpt'[o] = ckpt[o]]_vars
    /\ []((pc = "done" /\ args.remove_unused_checkpoints) =>
            IF args.no_confirm THEN prompts = <<>>
            ELSE /\ Len(prompts) = Len(best_models)
                 /\ \A i \in 1..Len(prompts) : prompts[i].log_dir = best_models[i].log_dir)

\* C6 witness: the first log directory was declined with "yes" and kept all
\* its checkpoints, the second was confirmed with "y" and processed.
C6_Witness ==
    /\ pc = "done"
    /\ run = "first"
    /\ Len(prompts) = 2
    /\ prompts[1].answer = "yes"
    /\ prompts[2].answer = "y"
    /\ ckpt[prompts[1].log_dir] = VersionNames
    /\ ckpt[prompts[2].log_dir] = {best_models[2].metrics.version}

\* C7 (as claimed): when --remove_unused_checkpoints is not passed,
\* remove_unused_checkpoints is not called and every checkpoint stays.
C7_RemovesOnlyWhenOptionPassed ==
    "--remove_unused_checkpoints" \notin argv =>
        /\ pc # "remove"
        /\ ckpt = [l \in LogDirNames |-> VersionNames]

\* C8: the stages of the construction run in order, each over all log
\* directories before the next starts: extraction starts with the log
\* directories discovered, the sort with a table for every log directory,
\* selection with every table sorted, linking with selection finished and no
\* link touched before, and create_metric_plots with the best_model link of
\* every selected model in place and no plot written before.
C8_StagesInOrder ==
    /\ pc \in {"start", "get_log_dirs"} => log_dirs = <<>>
    /\ pc \in {"start", "get_log_dirs", "create_dataframe"} =>
          data = <<>> /\ sort_keys = <<>>
    /\ pc \in {"start", "get_log_dirs", "create_dataframe", "sort"} =>
          best_models = <<>>
    /\ pc \in {"start", "get_log_dirs", "create_dataframe", "sort", "select"} =>
          link = prior_link
    /\ pc \in {"create_dataframe", "sort", "select"} \cup AfterSelect =>
          log_dirs = LogDirOrder
    /\ pc \in {"sort", "select"} \cup AfterSelect =>
          /\ Len(data) = Len(log_dirs)
          /\ \A i \in 1..Len(data) : data[i].log_dir = log_dirs[i]
    /\ pc = "sort" => Len(sort_keys) = idx - 1 /\ Len(new_data) = idx - 1
    /\ pc \in {"select"} \cup AfterSelect => Len(sort_keys) = Len(data)
    /\ pc \in AfterSelect =>
          \A i \in 1..Len(data) :
             ~IsEmpty(data[i].sorted_metrics_df) => BestOf(data[i].log_dir) # <<>>
    /\ (run = "first" /\ pc \notin AfterLink \ {"optuna_init", "crashed"}) =>
          \A l \in LogDirNames, v \in VersionNames : "loss.pdf" \notin files[l][v]
    /\ pc = "plots" =>
          \A i \in 1..Len(best_models) :
             link[best_models[i].log_dir] = best_models[i].metrics.version

\* C8 witness: create_metric_plots is about to read the event files of the
\* first of two best models, both of which are linked.
C8_Witness ==
    /\ pc = "plots"
    /\ idx = 1
    /\ Len(best_models) = 2
    /\ \A l \in LogDirNames : link[l] \in VersionNames

\* C9: after link_best_models, whatever best_model entry a log directory
\* held before, best_model of every best model links to the version of its
\* best row and that version directory holds the metrics file with the best
\* row's metrics; link_best_models does not fail.
C9_LinkedToBestVersion ==
    pc \in AfterLink =>
        /\ error \notin {"FileExistsError", "OSError"}
        /\ \A i \in 1..Len(best_models) :
              LET l == best_models[i].log_dir
                  v == best_models[i].metrics.version
              IN  /\ link[l] = v
                  /\ MetricsYaml \in files[l][v]
                  /\ metrics_yaml[l][v] = <<best_models[i].metrics>>

\* C9 witness: both log directories have a best model; exp_a had no link
\* before and exp_b had a link to another version than the best.
C9_Witness ==
    /\ pc = "optuna_init"
    /\ run = "first"
    /\ Len(best_models) = 2
    /\ prior_link["exp_a"] = "none"
    /\ prior_link["exp_b"] \in VersionNames
    /\ prior_link["exp_b"] # link["exp_b"]

\* C10: _get_version_dirs yields each version directory once and never
\* best_model, whether or not the link exists; no row of a table carries
\* the version "best_model"; and the second run selects for every log
\* directory the version the first run selected.
C10_BestModelIsNoCandidate ==
    /\ \A l \in LogDirNames :
          /\ Range(get_version_dirs(l)) = VersionNames
          /\ Len(get_version_dirs(l)) = Cardinality(VersionNames)
    /\ \A tables \in {data, new_data} :
          \A i \in 1..Len(tables) : \A j \in 1..Len(tables[i].dataframe.rows) :
             tables[i].dataframe.rows[j].version \in VersionNames
    /\ (run = "second" /\ pc \in AfterSelect) =>
          \A l \in LogDirNames : selected(l) = first_best[l]

\* C10 witness: the second run has selected; the two runs of exp_a tie, its
\* link from the first run is in place, and the same version is selected.
C10_Witness ==
    /\ run = "second"
    /\ pc = "link"
    /\ prior_link["exp_a"] \in VersionNames
    /\ Len(data[1].dataframe.rows) = 2
    /\ data[1].dataframe.rows[1].cells = data[1].dataframe.rows[2].cells
    /\ selected("exp_a") = first_best["exp_a"]
    /\ selected("exp_a") = prior_link["exp_a"]

\* The sort list of one direction, read off the keys given to sort_values:
\* the minimised columns are the ascending keys, in their order.
SortColsOf(keys, asc) ==
    LET pos == SelectSeq([k \in 1..Len(keys.by) |-> k], LAMBDA k : keys.ascending[k] = asc)
    IN  [k \in 1..Len(pos) |-> keys.by[pos[k]]]

\* cols lists every column of the set classified, each exactly once.
IsPermutationOf(cols, classified) ==
    /\ Range(cols) = classified
    /\ Len(cols) = Cardinality(classified)

\* In cols every column that contains a metric of priority precedes every
\* column that contains none.
PriorityFirst(cols, priority) ==
    \A a, b \in 1..Len(cols) :
        a < b => ~(~AnyIn(priority, cols[a]) /\ AnyIn(priority, cols[b]))

\* C11: after the priority step each of sort_cols_min and sort_cols_max is a
\* permutation of the columns classified into it (none lost, none
\* duplicated), and every column whose name contains some priority metric of
\* that direction precedes every column whose name contains none.
C11_PriorityMetricsFirst ==
    \A i \in 1..Len(SortedEntries) :
        LET columns == Range(SortedEntries[i].sorted_metrics_df.columns)
            cmin == SortColsOf(sort_keys[i], TRUE)
            cmax == SortColsOf(sort_keys[i], FALSE)
        IN  /\ IsPermutationOf(cmin, {c \in columns : IsMinCol(c)})
            /\ IsPermutationOf(cmax, {c \in columns : IsMaxCol(c)})
            /\ PriorityFirst(cmin, priority_min)
            /\ PriorityFirst(cmax, priority_max)

\* C11 witness: a table whose minimised columns started with one that holds
\* no priority metric was sorted; one priority metric matched two of its
\* three minimised columns, and both now stand before the third.
C11_Witness ==
    /\ pc = "select"
    /\ Len(data) = 1
    /\ priority_min = <<"ma">>
    /\ LET cmin == SortColsOf(sort_keys[1], TRUE)
           before == SelectSeq(data[1].dataframe.columns, IsMinCol)
       IN  /\ Len(cmin) = 3
           /\ before[1] = "test_loss"
           /\ cmin[3] = "test_loss"
           /\ cmin # before

\* The stages after generate_latex has returned.
AfterLatex == {"check_remove", "remove", "done"}

C12_EmptyWritten ==
    /\ pc = "check_remove"
    /\ run = "first"
    /\ best_models = <<>>
    /\ paper.written
    /\ paper.ch_results = <<>>

====
